---- MODULE Spec2Model ----
(***************************************************************************)
(* NinjaAdvertiser: issuing, scanning, parsing and revoking SHIP and SLAP  *)
(* advertisement tokens held as wallet outputs.                            *)
(*                                                                         *)
(* A Buffer is a sequence of byte values.  A locking script is a record    *)
(* [template, fields]: template says whether the script has the pushdrop   *)
(* shape that pushdrop.decode accepts, fields are the pushed Buffers.      *)
(* A BEEF bundle is abstracted to the id of the transaction it carries     *)
(* (0 for bytes that Transaction.fromBEEF rejects); every                  *)
(* transaction of the model has one output, at vout 0.                     *)
(* An optional value is a sequence of length 0 (undefined / null) or 1.    *)
(***************************************************************************)
EXTENDS Integers, Sequences, FiniteSets, TLC

VARIABLES privateKey, outputs, scanResult, calls, parsed

vars == <<privateKey, outputs, scanResult, calls, parsed>>

-----------------------------------------------------------------------------
(* Bounds *)

MaxOutputs == 1
MaxBatch == 3
MaxIssued == 2
MaxCalls == 2
MaxFields == 4

-----------------------------------------------------------------------------
(* Buffers and their string conversions *)

\* Buffer.toString() on one byte (utf8), for the bytes the model uses.
Chr(b) ==
  CASE b = 65 -> "A"
    [] b = 72 -> "H"
    [] b = 73 -> "I"
    [] b = 76 -> "L"
    [] b = 80 -> "P"
    [] b = 83 -> "S"
    [] b = 88 -> "X"
    [] b = 100 -> "d"
    [] b = 116 -> "t"
    [] b = 117 -> "u"
    [] OTHER -> "?"

RECURSIVE Utf8(_)
\* buffer.toString()
Utf8(buf) == IF buf = <<>> THEN "" ELSE Chr(Head(buf)) \o Utf8(Tail(buf))

HexDigits == <<"0", "1", "2", "3", "4", "5", "6", "7", "8", "9", "a", "b", "c", "d", "e", "f">>

RECURSIVE Hex(_)
\* buffer.toString('hex')
Hex(buf) ==
  IF buf = <<>> THEN ""
  ELSE HexDigits[(Head(buf) \div 16) + 1] \o HexDigits[(Head(buf) % 16) + 1] \o Hex(Tail(buf))

\* Buffers of the strings 'SHIP', 'SLAP', a foreign tag 'X', the hosting
\* domain 'd' and the topic / service names 't' and 'u'.
BufSHIP == <<83, 72, 73, 80>>
BufSLAP == <<83, 76, 65, 80>>
BufX == <<88>>
BufDomain == <<100>>
BufT == <<116>>
BufU == <<117>>

\* Buffer.from(s) for the strings the advertiser encodes.
BufferFrom(s) ==
  CASE s = "SHIP" -> BufSHIP
    [] s = "SLAP" -> BufSLAP
    [] s = "d" -> BufDomain
    [] s = "t" -> BufT
    [] s = "u" -> BufU
    [] OTHER -> BufX

-----------------------------------------------------------------------------
(* pushdrop field codec *)

GarbageScript == [template |-> FALSE, fields |-> <<>>]

PushdropScript(fields) == [template |-> TRUE, fields |-> fields]

\* pushdrop.decode({script, fieldFormat: 'buffer'}): throws on a script that
\* is not a pushdrop script, otherwise yields the pushed fields.
Decode(script) ==
  IF script.template THEN [threw |-> FALSE, fields |-> script.fields]
  ELSE [threw |-> TRUE, fields |-> <<>>]

-----------------------------------------------------------------------------
(* parseAdvertisement *)

\* The try block of parseAdvertisement.
ParseTry(outputScript) ==
  LET result == Decode(outputScript) IN
  IF result.threw THEN [threw |-> TRUE, ret |-> <<>>]
  ELSE IF Len(result.fields) < 4 THEN [threw |-> FALSE, ret |-> <<>>]
  ELSE
    LET protocol == Utf8(result.fields[1])
        identityKey == Hex(result.fields[2])
        domain == Utf8(result.fields[3])
        topicOrServiceName == Utf8(result.fields[4])
    IN
    IF protocol = "SHIP" THEN
      [threw |-> FALSE,
       ret |-> <<[protocol |-> "SHIP", identityKey |-> identityKey,
                  domain |-> domain, topic |-> topicOrServiceName]>>]
    ELSE IF protocol = "SLAP" THEN
      [threw |-> FALSE,
       ret |-> <<[protocol |-> "SLAP", identityKey |-> identityKey,
                  domain |-> domain, service |-> topicOrServiceName]>>]
    ELSE [threw |-> FALSE, ret |-> <<>>]

\* A parseAdvertisement that lets the exception out.
ParseCatchRethrow(t) ==
  IF t.threw THEN [raised |-> TRUE, ret |-> <<>>]
  ELSE [raised |-> FALSE, ret |-> t.ret]

\* The catch clause of parseAdvertisement: an exception becomes null.
ParseCatch(t) ==
  IF t.threw THEN [raised |-> FALSE, ret |-> <<>>]
  ELSE [raised |-> FALSE, ret |-> t.ret]

ParseAdvertisement(outputScript) == ParseCatch(ParseTry(outputScript))

-----------------------------------------------------------------------------
(* Keys *)

\* PublicKey.fromPrivateKey(new PrivateKey(privateKey, 'hex')).toString():
\* the compressed public key in hex, one per private key.
IdentityKeyBuf(priv) == <<2, priv>>

IdentityKey(priv) == Hex(IdentityKeyBuf(priv))

\* An invoice number that also names the topic or service.
InvoiceNumberPerName(advertisement) ==
  "2-" \o advertisement.protocol \o "-"
       \o (IF "topic" \in DOMAIN advertisement THEN advertisement.topic
           ELSE advertisement.service)

\* An invoice number that leaves the protocol out.
InvoiceNumberFixed(advertisement) == "2-SHIP-1"

\* The invoice number revokeAdvertisement hands to the key derivation.
InvoiceNumber(advertisement) == "2-" \o advertisement.protocol \o "-1"

\* sendover getPaymentPrivateKey: a deterministic, collision-free function of
\* its three inputs, kept as the term of its inputs.
GetPaymentPrivateKey(recipientPrivateKey, senderPublicKey, invoiceNumber) ==
  <<recipientPrivateKey, senderPublicKey, invoiceNumber>>

\* A key that no derivation of this advertiser yields.
ForeignKey == <<0, "", "">>

-----------------------------------------------------------------------------
(* Wallet outputs *)

\* createAdvertisement (utils/createAdvertisement.js): the output that a
\* successful issuance adds to the wallet, in the basket of its protocol,
\* locked by the key derived for the protocol.
CreateAdvertisement(priv, protocol, domain, topicOrService) ==
  [basket |-> IF protocol = "SHIP" THEN "tm_ship" ELSE "tm_slap",
   script |-> PushdropScript(<<BufferFrom(protocol), IdentityKeyBuf(priv),
                               BufferFrom(domain), BufferFrom(topicOrService)>>),
   rawTx |-> TRUE,
   lockKey |-> GetPaymentPrivateKey(priv, IdentityKey(priv), "2-" \o protocol \o "-1"),
   spent |-> FALSE]

\* An output that reaches a basket of the wallet by another way than this
\* advertiser's issuance.
ForeignOutput(basket, script, rawTx, lockKey) ==
  [basket |-> basket, script |-> script, rawTx |-> rawTx, lockKey |-> lockKey, spent |-> FALSE]

\* The key the revocation of a token tagged tag derives.
KeyForTag(priv, tag) == GetPaymentPrivateKey(priv, IdentityKey(priv), "2-" \o tag \o "-1")

\* A token with a foreign tag, locked by the key its tag derives.
TaggedX(priv) ==
  ForeignOutput("tm_ship", PushdropScript(<<BufX, IdentityKeyBuf(priv), BufDomain, BufT>>),
                TRUE, KeyForTag(priv, "X"))

\* The foreign outputs of the scans: a script that is no pushdrop script, a
\* three-field token, a token with a foreign tag, a token whose envelope the
\* wallet does not hold, a SLAP token in the SHIP basket and a five-field
\* token locked by somebody else's key.
ForeignOutputs(priv) ==
  LET pk == IdentityKeyBuf(priv) IN
  {ForeignOutput("tm_ship", GarbageScript, TRUE, ForeignKey),
   ForeignOutput("tm_slap", PushdropScript(<<BufSLAP, pk, BufDomain>>), TRUE, KeyForTag(priv, "SLAP")),
   TaggedX(priv),
   ForeignOutput("tm_ship", PushdropScript(<<BufSHIP, pk, BufDomain, BufT>>), FALSE, KeyForTag(priv, "SHIP")),
   ForeignOutput("tm_ship", PushdropScript(<<BufSLAP, pk, BufDomain, BufU>>), TRUE, KeyForTag(priv, "SLAP")),
   ForeignOutput("tm_slap", PushdropScript(<<BufSLAP, pk, BufDomain, BufT, BufU>>), TRUE, ForeignKey)}

\* toBEEFfromEnvelope({txid, rawTx, proof, inputs}): throws when the envelope
\* carries no raw transaction, otherwise yields the bundle of transaction txid.
ToBEEFfromEnvelope(txid, rawTx) ==
  IF rawTx THEN [threw |-> FALSE, beef |-> txid] ELSE [threw |-> TRUE, beef |-> 0]

\* The wallet query without spendable: true.
GetTransactionOutputsAll(outs, basket) ==
  SelectSeq([i \in 1..Len(outs) |-> i], LAMBDA i : outs[i].basket = basket)

\* ninja.getTransactionOutputs({basket, includeBasket: true, spendable: true}):
\* the ids of the unspent outputs of the basket, in the wallet's order.
GetTransactionOutputs(outs, basket) ==
  SelectSeq([i \in 1..Len(outs) |-> i],
            LAMBDA i : outs[i].basket = basket /\ ~outs[i].spent)

-----------------------------------------------------------------------------
(* findAllSHIPAdvertisements / findAllSLAPAdvertisements *)

\* The try block of the forEach callback of findAllSHIPAdvertisements:
\* the records it pushes for one output, or threw.
ShipTry(txid, output) ==
  LET b == ToBEEFfromEnvelope(txid, output.rawTx)
      d == Decode(output.script)
  IN
  IF b.threw \/ d.threw THEN [threw |-> TRUE, pushed |-> <<>>]
  ELSE IF Len(d.fields) >= 4 THEN
    [threw |-> FALSE,
     pushed |-> <<[protocol |-> Utf8(d.fields[1]), identityKey |-> Hex(d.fields[2]),
                   domain |-> Utf8(d.fields[3]), topic |-> Utf8(d.fields[4]),
                   beef |-> b.beef, outputIndex |-> 0]>>]
  ELSE [threw |-> FALSE, pushed |-> <<>>]

\* The same for findAllSLAPAdvertisements.
SlapTry(txid, output) ==
  LET b == ToBEEFfromEnvelope(txid, output.rawTx)
      d == Decode(output.script)
  IN
  IF b.threw \/ d.threw THEN [threw |-> TRUE, pushed |-> <<>>]
  ELSE IF Len(d.fields) >= 4 THEN
    [threw |-> FALSE,
     pushed |-> <<[protocol |-> Utf8(d.fields[1]), identityKey |-> Hex(d.fields[2]),
                   domain |-> Utf8(d.fields[3]), service |-> Utf8(d.fields[4]),
                   beef |-> b.beef, outputIndex |-> 0]>>]
  ELSE [threw |-> FALSE, pushed |-> <<>>]

\* Callbacks that let the exception out of the forEach.
ScanCatchRethrow(t, state) ==
  IF t.threw THEN [state EXCEPT !.raised = TRUE]
  ELSE [state EXCEPT !.advertisements = state.advertisements \o t.pushed]

\* The catch clause of the callbacks: the exception is logged and the
\* iteration goes on with what was pushed so far.
ScanCatch(t, state) ==
  IF t.threw THEN state
  ELSE [state EXCEPT !.advertisements = state.advertisements \o t.pushed]

RECURSIVE ForEachShip(_, _, _)
ForEachShip(results, outs, state) ==
  IF results = <<>> \/ state.raised THEN state
  ELSE ForEachShip(Tail(results), outs,
                   ScanCatch(ShipTry(Head(results), outs[Head(results)]), state))

RECURSIVE ForEachSlap(_, _, _)
ForEachSlap(results, outs, state) ==
  IF results = <<>> \/ state.raised THEN state
  ELSE ForEachSlap(Tail(results), outs,
                   ScanCatch(SlapTry(Head(results), outs[Head(results)]), state))

FindAllSHIPAdvertisements(outs) ==
  LET results == GetTransactionOutputs(outs, "tm_ship")
      final == ForEachShip(results, outs, [raised |-> FALSE, advertisements |-> <<>>])
  IN [basket |-> "tm_ship", batch |-> results, raised |-> final.raised,
      advertisements |-> final.advertisements]

FindAllSLAPAdvertisements(outs) ==
  LET results == GetTransactionOutputs(outs, "tm_slap")
      final == ForEachSlap(results, outs, [raised |-> FALSE, advertisements |-> <<>>])
  IN [basket |-> "tm_slap", batch |-> results, raised |-> final.raised,
      advertisements |-> final.advertisements]

-----------------------------------------------------------------------------
(* revokeAdvertisement *)

\* advertisement.beef and advertisement.outputIndex, undefined when absent.
BeefOf(advertisement) ==
  IF "beef" \in DOMAIN advertisement THEN <<advertisement.beef>> ELSE <<>>

OutputIndexOf(advertisement) ==
  IF "outputIndex" \in DOMAIN advertisement THEN <<advertisement.outputIndex>> ELSE <<>>

\* A guard that looks at beef alone.
LacksBeefOnly(advertisement) == BeefOf(advertisement) = <<>>

\* The guard that opens revokeAdvertisement.
LacksBeef(advertisement) ==
  BeefOf(advertisement) = <<>> \/ OutputIndexOf(advertisement) = <<>>

\* Transaction.fromBEEF(beef): throws on undefined and on bytes that are no
\* bundle, otherwise the transaction, with its id and its outputs.
FromBEEF(beef, outs) ==
  IF beef # <<>> /\ beef[1] \in 1..Len(outs)
  THEN [threw |-> FALSE, id |-> beef[1],
        outputs |-> <<[lockingScript |-> outs[beef[1]].script]>>]
  ELSE [threw |-> TRUE, id |-> 0, outputs |-> <<>>]

\* advertisementTx.outputs[advertisement.outputIndex]: undefined for an
\* undefined index and for one past the outputs (vout 0 is index 1 here).
OutputToRedeem(tx, outputIndex) ==
  IF outputIndex # <<>> /\ outputIndex[1] + 1 \in DOMAIN tx.outputs
  THEN <<tx.outputs[outputIndex[1] + 1]>>
  ELSE <<>>

\* The routing topic of the returned bundle.
TopicOf(protocol) == IF protocol = "SHIP" THEN "tm_ship" ELSE "tm_slap"

\* What the wallet does with getTransactionWithOutputs: it signs and
\* processes the spend of an output that is unspent and that the unlocking
\* script's key unlocks, and rejects any other.
WalletAccepts(outs, txid, key) == ~outs[txid].spent /\ outs[txid].lockKey = key

\* A call that goes on after a rejected wallet call.
AfterWalletSwallowed(accepted) == "package"

\* A rejected await of the wallet call ends the call with the wallet's error.
AfterWallet(accepted) == IF accepted THEN "package" ELSE "failed"

\* A call of revokeAdvertisement: where it stands, the error it threw, whether
\* its advertisement lacked beef or outputIndex, the protocol, transaction,
\* invoice number and key it worked with, its wallet calls, whether its
\* output was spent when it started, whether it spent it, and what it returned.
NoCall ==
  [pc |-> "idle", error |-> "", lacks |-> FALSE, protocol |-> "", txid |-> 0,
   invoiceNumber |-> "", key |-> ForeignKey, walletCalls |-> 0,
   spentAtStart |-> FALSE, spent |-> FALSE, result |-> <<>>]

GuardError == "Advertisement to revoke must contain tagged beef!"

Without(ad, f) == [g \in DOMAIN ad \ {f} |-> ad[g]]

\* The advertisement records a caller can hand to revokeAdvertisement: the
\* records of the last scan, as returned or with beef or outputIndex dropped,
\* with a corrupted beef or with an index past the transaction's outputs,
\* and the bare records that parseAdvertisement returns for the outputs.
CallerAdvertisements ==
  LET scanned == {scanResult.advertisements[i] : i \in 1..Len(scanResult.advertisements)}
      bare == UNION {{p.ret[j] : j \in 1..Len(p.ret)} :
                     p \in {ParseAdvertisement(outputs[i].script) : i \in 1..Len(outputs)}}
  IN scanned
     \cup {Without(ad, "beef") : ad \in scanned}
     \cup {Without(ad, "outputIndex") : ad \in scanned}
     \cup {[ad EXCEPT !.beef = 0] : ad \in scanned}
     \cup {[ad EXCEPT !.outputIndex = 1] : ad \in scanned}
     \cup bare

\* revokeAdvertisement up to its call of the wallet: the guard, the parse of
\* the bundle, the key derivation and the unlocking script.  Nothing of this
\* reads or writes the wallet, so it is one step; reading lockingScript of an
\* undefined output is the TypeError.
RevokeStart(c, advertisement) ==
  /\ calls[c].pc = "idle"
  /\ \A d \in 1..(c - 1) : calls[d].pc # "idle"
  /\ LET started == [NoCall EXCEPT !.lacks = BeefOf(advertisement) = <<>>
                                            \/ OutputIndexOf(advertisement) = <<>>]
     IN
     IF LacksBeef(advertisement)
     THEN calls' = [calls EXCEPT ![c] = [started EXCEPT !.pc = "failed", !.error = GuardError]]
     ELSE
       LET advertisementTx == FromBEEF(BeefOf(advertisement), outputs)
           outputToRedeem == OutputToRedeem(advertisementTx, OutputIndexOf(advertisement))
           identityKey == IdentityKey(privateKey)
           invoiceNumber == InvoiceNumber(advertisement)
           derivedPrivateKey == GetPaymentPrivateKey(privateKey, identityKey, invoiceNumber)
       IN
       IF advertisementTx.threw
       THEN calls' = [calls EXCEPT ![c] = [started EXCEPT !.pc = "failed", !.error = "fromBEEF"]]
       ELSE IF outputToRedeem = <<>>
       THEN calls' = [calls EXCEPT ![c] = [started EXCEPT !.pc = "failed", !.error = "TypeError"]]
       ELSE calls' = [calls EXCEPT ![c] =
                        [started EXCEPT !.pc = "wallet",
                                        !.protocol = advertisement.protocol,
                                        !.invoiceNumber = invoiceNumber,
                                        !.key = derivedPrivateKey,
                                        !.txid = advertisementTx.id,
                                        !.spentAtStart = outputs[advertisementTx.id].spent]]
  /\ UNCHANGED <<privateKey, outputs, scanResult, parsed>>

\* ninja.getTransactionWithOutputs({..., autoProcess: true}): the wallet
\* processes the spend or rejects it (walletUp: it can also fail for reasons
\* of its own).
RevokeWallet(c, walletUp) ==
  /\ calls[c].pc = "wallet"
  /\ LET accepted == walletUp /\ WalletAccepts(outputs, calls[c].txid, calls[c].key) IN
     /\ calls' = [calls EXCEPT ![c].pc = AfterWallet(accepted),
                               ![c].error = IF AfterWallet(accepted) = "failed" THEN "wallet" ELSE "",
                               ![c].walletCalls = @ + 1,
                               ![c].spent = accepted]
     /\ outputs' = IF accepted THEN [outputs EXCEPT ![calls[c].txid].spent = TRUE]
                   ELSE outputs
  /\ UNCHANGED <<privateKey, scanResult, parsed>>

\* The rest of revokeAdvertisement: the bundle of the revoking transaction
\* (rawTx: whether the transaction the wallet returned carries its rawTx; its
\* id is written as minus the id of the transaction it spends) and the tagged
\* bundle that is returned.
RevokePackage(c, rawTx) ==
  /\ calls[c].pc = "package"
  /\ LET b == ToBEEFfromEnvelope(0 - calls[c].txid, rawTx) IN
     IF b.threw
     THEN calls' = [calls EXCEPT ![c].pc = "failed", ![c].error = "toBEEFfromEnvelope"]
     ELSE calls' = [calls EXCEPT ![c].pc = "done",
                                 ![c].result = <<[beef |-> b.beef,
                                                  topics |-> <<TopicOf(calls[c].protocol)>>]>>]
  /\ UNCHANGED <<privateKey, outputs, scanResult, parsed>>

-----------------------------------------------------------------------------
(* The other operations *)

Topics == {"t", "u"}

Services == {"t"}

HostingDomain == "d"

CreateSHIPAdvertisement(topic) ==
  /\ Len(outputs) < MaxOutputs
  /\ outputs' = Append(outputs, CreateAdvertisement(privateKey, "SHIP", HostingDomain, topic))
  /\ UNCHANGED <<privateKey, scanResult, calls, parsed>>

CreateSLAPAdvertisement(service) ==
  /\ Len(outputs) < MaxOutputs
  /\ outputs' = Append(outputs, CreateAdvertisement(privateKey, "SLAP", HostingDomain, service))
  /\ UNCHANGED <<privateKey, scanResult, calls, parsed>>

\* An output reaches a basket of the wallet from elsewhere.
WalletReceives(output) ==
  /\ Len(outputs) < MaxOutputs
  /\ outputs' = Append(outputs, output)
  /\ UNCHANGED <<privateKey, scanResult, calls, parsed>>

ScanSHIP ==
  /\ scanResult' = FindAllSHIPAdvertisements(outputs)
  /\ UNCHANGED <<privateKey, outputs, calls, parsed>>

ScanSLAP ==
  /\ scanResult' = FindAllSLAPAdvertisements(outputs)
  /\ UNCHANGED <<privateKey, outputs, calls, parsed>>

NoScan == [basket |-> "", batch |-> <<>>, raised |-> FALSE, advertisements |-> <<>>]

NoParse == [pc |-> "idle", script |-> GarbageScript, raised |-> FALSE, ret |-> <<>>]

PrivateKeys == {17}

Init ==
  /\ privateKey \in PrivateKeys
  /\ outputs = <<>>
  /\ scanResult = NoScan
  /\ calls = [c \in 1..MaxCalls |-> NoCall]
  /\ parsed = NoParse

Next ==
  \/ \E topic \in Topics : CreateSHIPAdvertisement(topic)
  \/ \E service \in Services : CreateSLAPAdvertisement(service)
  \/ WalletReceives(TaggedX(privateKey))
  \/ ScanSHIP
  \/ ScanSLAP
  \/ \E c \in 1..MaxCalls : \E advertisement \in CallerAdvertisements :
       RevokeStart(c, advertisement)
  \/ \E c \in 1..MaxCalls : \E walletUp \in BOOLEAN : RevokeWallet(c, walletUp)
  \/ \E c \in 1..MaxCalls : \E rawTx \in BOOLEAN : RevokePackage(c, rawTx)

Spec == Init /\ [][Next]_vars

-----------------------------------------------------------------------------
(* The scans on their own: every batch of up to MaxBatch held outputs *)

BatchOutputs(priv) ==
  {CreateAdvertisement(priv, "SHIP", HostingDomain, "t"),
   CreateAdvertisement(priv, "SLAP", HostingDomain, "t")} \cup ForeignOutputs(priv)

RECURSIVE Batches(_, _)
Batches(priv, n) ==
  IF n = 0 THEN {<<>>}
  ELSE LET shorter == Batches(priv, n - 1) IN
       shorter \cup {Append(s, o) : s \in {t \in shorter : Len(t) = n - 1},
                                    o \in BatchOutputs(priv)}

InitScan ==
  /\ privateKey \in PrivateKeys
  /\ outputs \in Batches(privateKey, MaxBatch)
  /\ scanResult = NoScan
  /\ calls = [c \in 1..MaxCalls |-> NoCall]
  /\ parsed = NoParse

NextScan == ScanSHIP \/ ScanSLAP

SpecScan == InitScan /\ [][NextScan]_vars

-----------------------------------------------------------------------------
(* Revocations of the advertisements of a wallet that holds up to MaxIssued *)
(* advertisements issued by this advertiser                                 *)

IssuedOutputs(priv) ==
  {CreateAdvertisement(priv, "SHIP", HostingDomain, topic) : topic \in Topics}
  \cup {CreateAdvertisement(priv, "SLAP", HostingDomain, service) : service \in Services}

RECURSIVE Issued(_, _)
Issued(priv, n) ==
  IF n = 0 THEN {<<>>}
  ELSE LET shorter == Issued(priv, n - 1) IN
       shorter \cup {Append(s, o) : s \in {t \in shorter : Len(t) = n - 1},
                                    o \in IssuedOutputs(priv)}

ScannedAdvertisements ==
  {scanResult.advertisements[i] : i \in 1..Len(scanResult.advertisements)}

InitKeys ==
  /\ privateKey \in PrivateKeys
  /\ outputs \in Issued(privateKey, MaxIssued)
  /\ scanResult = NoScan
  /\ calls = [c \in 1..MaxCalls |-> NoCall]
  /\ parsed = NoParse

NextKeys ==
  \/ ScanSHIP
  \/ ScanSLAP
  \/ \E c \in 1..MaxCalls : \E advertisement \in ScannedAdvertisements :
       RevokeStart(c, advertisement)
  \/ \E c \in 1..MaxCalls : RevokeWallet(c, TRUE)
  \/ \E c \in 1..MaxCalls : RevokePackage(c, TRUE)

SpecKeys == InitKeys /\ [][NextKeys]_vars

-----------------------------------------------------------------------------
(* parseAdvertisement on its own: every script of up to MaxFields fields *)

FieldValues == {BufSHIP, BufSLAP, BufX, BufT, <<2, 17>>}

RECURSIVE FieldSeqs(_)
FieldSeqs(n) ==
  IF n = 0 THEN {<<>>}
  ELSE LET shorter == FieldSeqs(n - 1) IN
       shorter \cup {Append(s, f) : s \in {t \in shorter : Len(t) = n - 1}, f \in FieldValues}

Scripts == {GarbageScript} \cup {PushdropScript(fs) : fs \in FieldSeqs(MaxFields)}

Parse ==
  /\ parsed.pc = "idle"
  /\ LET r == ParseAdvertisement(parsed.script) IN
     parsed' = [parsed EXCEPT !.pc = "returned", !.raised = r.raised, !.ret = r.ret]
  /\ UNCHANGED <<privateKey, outputs, scanResult, calls>>

InitParse ==
  /\ privateKey \in PrivateKeys
  /\ outputs = <<>>
  /\ scanResult = NoScan
  /\ calls = [c \in 1..MaxCalls |-> NoCall]
  /\ parsed \in {[NoParse EXCEPT !.script = s] : s \in Scripts}

NextParse == Parse

SpecParse == InitParse /\ [][NextParse]_vars

-----------------------------------------------------------------------------
(* Properties *)

\* A call that got as far as deriving its key for an output of the wallet.
Derived(c) == calls[c].txid # 0

Returned(c) == calls[c].result # <<>>

\* C1: a call of revokeAdvertisement whose advertisement has no beef or no
\* outputIndex has failed with the guard's error, has made no wallet call and
\* has spent nothing.
C1_BareRevokeFailsWithoutWalletCall ==
  \A c \in 1..MaxCalls :
    calls[c].lacks =>
      /\ calls[c].pc = "failed"
      /\ calls[c].error = GuardError
      /\ calls[c].walletCalls = 0
      /\ ~calls[c].spent
      /\ calls[c].result = <<>>

C1_Witness ==
  \E c \in 1..MaxCalls :
    /\ calls[c].lacks
    /\ calls[c].pc = "failed"
    /\ \E i \in 1..Len(outputs) : ~outputs[i].spent

\* An output of the batch whose envelope yields a bundle and whose script
\* decodes to at least four fields.
WellFormed(i) ==
  /\ outputs[i].rawTx
  /\ outputs[i].script.template
  /\ Len(outputs[i].script.fields) >= 4

RecordsOf(i) ==
  {k \in 1..Len(scanResult.advertisements) :
     /\ scanResult.advertisements[k].beef = i
     /\ scanResult.advertisements[k].outputIndex = 0}

BatchIds == {scanResult.batch[k] : k \in 1..Len(scanResult.batch)}

\* C2: a scan does not fail, and its result holds exactly one record for each
\* well-formed output of the batch and none for any other output, wherever
\* the other outputs sit in the batch.
C2_ScanKeepsExactlyTheWellFormed ==
  scanResult # NoScan =>
    /\ ~scanResult.raised
    /\ \A i \in BatchIds :
         Cardinality(RecordsOf(i)) = IF WellFormed(i) THEN 1 ELSE 0
    /\ Len(scanResult.advertisements) = Cardinality({i \in BatchIds : WellFormed(i)})

\* A batch that opens with a bad output, goes on with a well-formed one and
\* ends with a bad one.
C2_Witness ==
  /\ Len(scanResult.batch) = 3
  /\ ~WellFormed(scanResult.batch[1])
  /\ WellFormed(scanResult.batch[2])
  /\ ~WellFormed(scanResult.batch[3])
  /\ Len(scanResult.advertisements) = 1

ParsedFields == parsed.script.fields

\* C3: parseAdvertisement does not raise; it returns null exactly when the
\* script does not decode, or decodes to fewer than four fields, or its first
\* field is neither SHIP nor SLAP; otherwise it returns the record of the
\* first four fields, with topic for SHIP and service for SLAP, and without
\* beef and outputIndex.
C3_ParseNullOrBareRecord ==
  parsed.pc = "returned" =>
    /\ ~parsed.raised
    /\ (parsed.ret = <<>>) <=>
         \/ ~parsed.script.template
         \/ Len(ParsedFields) < 4
         \/ ParsedFields[1] \notin {BufSHIP, BufSLAP}
    /\ parsed.ret # <<>> =>
         LET r == parsed.ret[1] IN
         /\ r.protocol = Utf8(ParsedFields[1])
         /\ r.identityKey = Hex(ParsedFields[2])
         /\ r.domain = Utf8(ParsedFields[3])
         /\ DOMAIN r = {"protocol", "identityKey", "domain",
                        IF ParsedFields[1] = BufSHIP THEN "topic" ELSE "service"}
         /\ (IF ParsedFields[1] = BufSHIP THEN r.topic ELSE r.service) = Utf8(ParsedFields[4])

C3_Witness ==
  /\ parsed.pc = "returned"
  /\ parsed.ret # <<>>
  /\ parsed.ret[1].protocol = "SLAP"
  /\ parsed.ret[1].service = "t"

\* The outputs this advertiser issued.
IssuedByAdvertiser(i) ==
  \E protocol \in {"SHIP", "SLAP"} : \E name \in Topics :
    [outputs[i] EXCEPT !.spent = FALSE]
      = CreateAdvertisement(privateKey, protocol, HostingDomain, name)

\* C4: every scan returns, for each issued output of the scanned basket, one
\* record with its beef and outputIndex while the output is unspent and no
\* record once it is spent, and returns no record of a spent output.
C4_ScanReturnsOnlyUnspent ==
  [][(outputs' = outputs /\ calls' = calls) =>
       /\ \A i \in 1..Len(outputs') :
            (IssuedByAdvertiser(i)' /\ outputs'[i].basket = scanResult'.basket) =>
              Cardinality(RecordsOf(i)') = IF outputs'[i].spent THEN 0 ELSE 1
       /\ \A k \in 1..Len(scanResult'.advertisements) :
            ~outputs'[scanResult'.advertisements[k].beef].spent]_vars

\* An issued output that a call has revoked, and a scan of its basket since.
C4_Witness ==
  \E c \in 1..MaxCalls :
    /\ calls[c].pc = "done"
    /\ IssuedByAdvertiser(calls[c].txid)
    /\ outputs[calls[c].txid].spent
    /\ scanResult.basket = outputs[calls[c].txid].basket
    /\ RecordsOf(calls[c].txid) = {}

\* C5: an output is spent at most once: of the calls on one output at most
\* one returns a bundle, it is the one whose wallet call spent the output,
\* and no call started after the output was spent returns a bundle.
C5_AtMostOneRevocationSucceeds ==
  /\ \A c, d \in 1..MaxCalls :
       (c # d /\ Returned(c) /\ Returned(d)) => calls[c].txid # calls[d].txid
  /\ \A c, d \in 1..MaxCalls :
       (c # d /\ calls[c].spent /\ calls[d].spent) => calls[c].txid # calls[d].txid
  /\ \A c \in 1..MaxCalls :
       (calls[c].pc = "done" \/ Returned(c)) =>
         /\ calls[c].spent
         /\ ~calls[c].spentAtStart
         /\ outputs[calls[c].txid].spent
  /\ \A c \in 1..MaxCalls :
       calls[c].spentAtStart => calls[c].pc \in {"wallet", "failed"}

\* Two calls on one output: one returned a bundle, the other started after
\* the output was spent and failed at the wallet.
C5_Witness ==
  \E c, d \in 1..MaxCalls :
    /\ c # d
    /\ calls[c].txid = calls[d].txid
    /\ calls[c].pc = "done"
    /\ calls[d].spentAtStart
    /\ calls[d].pc = "failed"
    /\ calls[d].error = "wallet"

\* C6: a returned bundle carries one routing topic, tm_ship for SHIP and
\* tm_slap for SLAP, and tm_slap for no protocol other than SLAP.
C6_TopicMatchesProtocol ==
  \A c \in 1..MaxCalls :
    Returned(c) =>
      /\ Len(calls[c].result[1].topics) = 1
      /\ calls[c].protocol = "SHIP" => calls[c].result[1].topics = <<"tm_ship">>
      /\ calls[c].protocol = "SLAP" => calls[c].result[1].topics = <<"tm_slap">>
      /\ calls[c].protocol # "SLAP" => calls[c].result[1].topics # <<"tm_slap">>

\* C7 as claimed: two calls revoking distinct advertisements derive
\* different keys.
C7_KeyPerAdvertisement ==
  \A c, d \in 1..MaxCalls :
    (Derived(c) /\ Derived(d) /\ calls[c].txid # calls[d].txid) =>
      calls[c].key # calls[d].key

\* C7 as amended: the derived key is per protocol, not per advertisement: two
\* calls revoking distinct advertisements of this identity derive different
\* keys exactly when the protocols of the advertisements differ.
C7_KeyPerProtocol ==
  \A c, d \in 1..MaxCalls :
    (Derived(c) /\ Derived(d) /\ calls[c].txid # calls[d].txid) =>
      (calls[c].key # calls[d].key <=> calls[c].protocol # calls[d].protocol)

\* Two SHIP advertisements for different topics, revoked with one key.
C7_Witness ==
  \E c, d \in 1..MaxCalls :
    /\ Derived(c) /\ Derived(d)
    /\ calls[c].txid # calls[d].txid
    /\ outputs[calls[c].txid].script.fields[4] # outputs[calls[d].txid].script.fields[4]
    /\ calls[c].protocol = "SHIP" /\ calls[d].protocol = "SHIP"
    /\ calls[c].key = calls[d].key
    /\ calls[c].pc = "done" /\ calls[d].pc = "done"

\* C8: calls with one protocol use one invoice number and one derived key;
\* the key of a SHIP call differs from the key of a SLAP call, and unlocks no
\* issued output of the other protocol.
C8_KeyDeterministicAndProtocolSeparated ==
  /\ \A c, d \in 1..MaxCalls :
       (Derived(c) /\ Derived(d)) =>
         /\ calls[c].protocol = calls[d].protocol =>
              /\ calls[c].invoiceNumber = calls[d].invoiceNumber
              /\ calls[c].key = calls[d].key
         /\ (calls[c].protocol = "SHIP" /\ calls[d].protocol = "SLAP") =>
              /\ calls[c].invoiceNumber # calls[d].invoiceNumber
              /\ calls[c].key # calls[d].key
  /\ \A c \in 1..MaxCalls : \A i \in 1..Len(outputs) :
       (Derived(c) /\ calls[c].protocol \in {"SHIP", "SLAP"}
          /\ outputs[i].basket # TopicOf(calls[c].protocol)) =>
         ~WalletAccepts([outputs EXCEPT ![i].spent = FALSE], i, calls[c].key)

\* A SHIP revocation and a SLAP revocation, both returned.
C8_Witness ==
  \E c, d \in 1..MaxCalls :
    /\ calls[c].protocol = "SHIP" /\ calls[d].protocol = "SLAP"
    /\ calls[c].pc = "done" /\ calls[d].pc = "done"
    /\ calls[c].key # calls[d].key

\* C9: every record of a scan of tm_ship has protocol SHIP and every record
\* of a scan of tm_slap has protocol SLAP.
C9_ScanRecordsHaveScannedProtocol ==
  \A k \in 1..Len(scanResult.advertisements) :
    scanResult.advertisements[k].protocol
      = (IF scanResult.basket = "tm_ship" THEN "SHIP" ELSE "SLAP")

\* C10: a call that failed has not spent its output.
C10_FailedCallSpentNothing ==
  \A c \in 1..MaxCalls : calls[c].pc = "failed" => ~calls[c].spent

====
